---- MODULE Spec2Model ----
(***************************************************************************)
(* A model of llk, a parser combinator library for LL(k) parsers:          *)
(*   - the tokeniser (llk.go): a cached, backtrackable token stream;       *)
(*   - the Result algebra (types: Succeeded, Failed, Halt, merge, Join);   *)
(*   - the primitive parsers Empty and Term;                               *)
(*   - the chain engine M (types/m.go) and the folders of Seq and Either.  *)
(*                                                                         *)
(* Go maps are reference values: a location set is an entry of `heap` and  *)
(* a Succeeded result holds the index of its map.  A Go panic is recorded  *)
(* in the field `err` of the machine state; nothing runs after a panic.    *)
(***************************************************************************)
EXTENDS Integers, Sequences, FiniteSets, TLC

VARIABLES
  input,    \* the tokens the scanner will emit, in order (the input text)
  scanPos,  \* how many tokens the scanner has emitted (scanner.Scanner)
  tokens,   \* tokeniser.tokens: the tokens already scanned
  loc,      \* tokeniser.loc
  heap,     \* the location maps allocated by NewLocs and still reachable
  err,      \* "none", or the panic that ended the program
  result,   \* the Result returned by the last Parse call
  last,     \* the last call made on the tokeniser and what it returned
  peeked,   \* location -> the Token the first successful Peek there returned
  ra, rb,   \* two Results held by a client of the Result algebra
  rr,       \* the Result of the client's last merge or Join
  alg,      \* the last call made on the Result algebra
  mem       \* the chain nodes (*M) built so far, and the arrays of their queues

vars == <<input, scanPos, tokens, loc, heap, err, result, last, peeked,
          ra, rb, rr, alg, mem>>

(***************************************************************************)
(* Bounds of the model.                                                    *)
(***************************************************************************)
MaxInput == 3    \* longest input, in tokens
MaxErrs == 2     \* longest list of parse errors a client builds up
MaxLocArg == 1   \* largest location a client passes to NewSucceeded
MaxDepth == 64   \* deepest nesting of Parse and folder calls

(***************************************************************************)
(* Lexical categories of text/scanner, as used by the shorthands.          *)
(***************************************************************************)
scanner_EOF == -1
scanner_Ident == -2
scanner_Int == -3
LParen == 40
RParen == 41
Plus == 43

(***************************************************************************)
(* Tokens.                                                                 *)
(***************************************************************************)
NewToken(c, m) == [category |-> c, match |-> m]

\* the zero Token, returned by Peek together with ok = false
ZeroToken == [category |-> 0, match |-> ""]

Alphabet ==
  { NewToken(scanner_Ident, "a"), NewToken(scanner_Ident, "b"), NewToken(scanner_Int, "1") }

RECURSIVE SeqsUpTo(_, _)
SeqsUpTo(S, n) ==
  IF n = 0 THEN { <<>> }
  ELSE LET shorter == SeqsUpTo(S, n - 1)
       IN shorter \cup { Append(q, e) : q \in shorter, e \in S }

Inputs == SeqsUpTo(Alphabet, MaxInput)

(***************************************************************************)
(* Values carried by results (Go's `any`): nil, a string or an int64.      *)
(***************************************************************************)
NilValue == [t |-> "nil", s |-> "", i |-> 0]
StrValue(s) == [t |-> "str", s |-> s, i |-> 0]
IntValue(i) == [t |-> "int", s |-> "", i |-> i]

(***************************************************************************)
(* The machine state the operations act on: the tokeniser, the heap of     *)
(* location maps and the panic flag.                                       *)
(***************************************************************************)
Cur ==
  [tokens |-> tokens, loc |-> loc, scanPos |-> scanPos, heap |-> heap,
   err |-> err]

Panic(s, e) == IF s.err = "none" THEN [s EXCEPT !.err = e] ELSE s

(***************************************************************************)
(* tokeniser                                                               *)
(***************************************************************************)
newTokeniser == [tokens |-> <<>>, loc |-> 0, scanPos |-> 0]

Loc(s) == s.loc

Dec(s) == [s EXCEPT !.loc = s.loc - 1]

Inc(s) == [s EXCEPT !.loc = s.loc + 1]

\* a Seek that refuses the location just behind the last scanned token
SeekScanned(s, k) ==
  IF k < 0 \/ k >= Len(s.tokens)
  THEN Panic(s, "ErrBadLoc")
  ELSE [s EXCEPT !.loc = k]

Seek(s, k) ==
  IF k < 0 \/ k > Len(s.tokens)
  THEN Panic(s, "ErrBadLoc")
  ELSE [s EXCEPT !.loc = k]

\* scanner.Scan followed by scanner.TokenText: the next token of the input,
\* or scanner_EOF (again and again) once the input is used up
Scan(s) ==
  IF s.scanPos < Len(input)
  THEN [s |-> [s EXCEPT !.scanPos = s.scanPos + 1],
        category |-> input[s.scanPos + 1].category,
        text |-> input[s.scanPos + 1].match]
  ELSE [s |-> s, category |-> scanner_EOF, text |-> ""]

\* t.tokens[t.loc], with Go's bounds check
TokenAt(s) ==
  IF s.loc < 0 \/ s.loc >= Len(s.tokens)
  THEN [s |-> Panic(s, "index out of range"), token |-> ZeroToken,
        ok |-> FALSE]
  ELSE [s |-> s, token |-> s.tokens[s.loc + 1], ok |-> TRUE]

\* a Peek that answers with the token it scanned last
PeekNewest(s) ==
  IF s.loc >= Len(s.tokens)
  THEN LET sc == Scan(s)
       IN IF sc.category = scanner_EOF
          THEN [s |-> sc.s, token |-> ZeroToken, ok |-> FALSE]
          ELSE TokenAt([sc.s EXCEPT
                 !.tokens = Append(@, NewToken(sc.category, sc.text))])
  ELSE IF s.loc < 0 THEN TokenAt(s)
  ELSE [s |-> s, token |-> s.tokens[Len(s.tokens)], ok |-> TRUE]

Peek(s) ==
  IF s.loc >= Len(s.tokens)
  THEN LET sc == Scan(s)
       IN IF sc.category = scanner_EOF
          THEN [s |-> sc.s, token |-> ZeroToken, ok |-> FALSE]
          ELSE TokenAt([sc.s EXCEPT
                 !.tokens = Append(@, NewToken(sc.category, sc.text))])
  ELSE TokenAt(s)

(***************************************************************************)
(* Result: Succeeded, Failed, Halt, and the nil interface value.           *)
(***************************************************************************)
newParseError(expected, found) ==
  [Expected |-> expected, Found |-> found, Line |-> 0, Column |-> 0]

NilResult ==
  [tag |-> "nil", locs |-> 0, v |-> NilValue, errs |-> <<>>,
   component |-> "", Message |-> "", Line |-> 0, Column |-> 0]

\* NewLocs: a new map holding the one location l
NewLocs(s, l) ==
  [s |-> [s EXCEPT !.heap = Append(@, {l})], ref |-> Len(s.heap) + 1]

NewSucceeded(s, v, l) ==
  LET m == NewLocs(s, l)
  IN [s |-> m.s,
      r |-> [NilResult EXCEPT !.tag = "Succeeded", !.locs = m.ref, !.v = v]]

NewFailed(expected, found) ==
  [NilResult EXCEPT !.tag = "Failed",
                    !.errs = << newParseError(expected, found) >>]

\* the Failed{} a new chain node starts from: no parse errors
EmptyFailed == [NilResult EXCEPT !.tag = "Failed"]

\* a Failed that does not say which text was found
NewScanFailedNoFound(expected, found, line, col) ==
  [NilResult EXCEPT !.tag = "Failed",
     !.errs = << [newParseError(expected, "") EXCEPT
                    !.Line = line, !.Column = col] >>]

\* a Failed without a parse error
NewScanFailedNoError(expected, found, line, col) == EmptyFailed

NewScanFailed(expected, found, line, col) ==
  [NilResult EXCEPT !.tag = "Failed",
     !.errs = << [newParseError(expected, found) EXCEPT
                    !.Line = line, !.Column = col] >>]

NewHalt(c, m) ==
  [NilResult EXCEPT !.tag = "Halt", !.component = c, !.Message = m]

Halt_WithLineAndColumn(h, line, col) ==
  [h EXCEPT !.Line = line, !.Column = col]

(***************************************************************************)
(* Methods of Result.  Each takes the machine state (for the heap and the  *)
(* panic flag) and returns the new state together with the value returned. *)
(* Halt embeds a Result that NewHalt leaves nil, so that calling any       *)
(* method of Result on a Halt dereferences a nil interface.                *)
(***************************************************************************)
Ret(s, r) == [s |-> s, r |-> r]

Throw(s, e) == [s |-> Panic(s, e), r |-> NilResult]

\* a Merge that forgets to add the locations of b
locs_MergeNothing(s, a, b) == [s |-> s, ref |-> a]

\* locs.Merge: adds every location of the map b to the map a, returns a
locs_Merge(s, a, b) ==
  [s |-> [s EXCEPT !.heap[a] = @ \cup s.heap[b]], ref |-> a]

Succeeded_merge(s, a, b) ==
  IF b.tag # "Succeeded"
  THEN Throw(s, "interface conversion")
  ELSE LET m == locs_Merge(s, a.locs, b.locs)
       IN Ret(m.s, [a EXCEPT !.locs = m.ref, !.v = b.v])

\* a merge that puts the errors of b in front
Failed_mergeFront(s, a, b) ==
  IF b.tag # "Failed"
  THEN Throw(s, "interface conversion")
  ELSE Ret(s, [a EXCEPT !.errs = b.errs \o a.errs])

Failed_merge(s, a, b) ==
  IF b.tag # "Failed"
  THEN Throw(s, "interface conversion")
  ELSE Ret(s, [a EXCEPT !.errs = a.errs \o b.errs])

\* a Join that lets a later failure replace an earlier success
Succeeded_JoinLater(s, a, b) ==
  CASE b.tag = "Succeeded" -> Succeeded_merge(s, a, b)
    [] b.tag = "Failed" -> Ret(s, b)
    [] b.tag = "Halt" -> Ret(s, b)
    [] OTHER -> Throw(s, "ErrInternal")

Succeeded_Join(s, a, b) ==
  CASE b.tag = "Succeeded" -> Succeeded_merge(s, a, b)
    [] b.tag = "Failed" -> Ret(s, a)
    [] b.tag = "Halt" -> Ret(s, b)
    [] OTHER -> Throw(s, "ErrInternal")

\* a Join that holds on to the failure
Failed_JoinKeep(s, a, b) ==
  CASE b.tag = "Failed" -> Failed_merge(s, a, b)
    [] b.tag \in { "Succeeded", "Halt" } -> Ret(s, a)
    [] OTHER -> Throw(s, "ErrInternal")

Failed_Join(s, a, b) ==
  CASE b.tag = "Succeeded" -> Ret(s, b)
    [] b.tag = "Failed" -> Failed_merge(s, a, b)
    [] b.tag = "Halt" -> Ret(s, b)
    [] OTHER -> Throw(s, "ErrInternal")

\* a.merge(b), dispatched on the dynamic type of a
merge(s, a, b) ==
  CASE a.tag = "Succeeded" -> Succeeded_merge(s, a, b)
    [] a.tag = "Failed" -> Failed_merge(s, a, b)
    [] OTHER -> Throw(s, "nil dereference")

\* a.Join(b), dispatched on the dynamic type of a
Join(s, a, b) ==
  CASE a.tag = "Succeeded" -> Succeeded_Join(s, a, b)
    [] a.tag = "Failed" -> Failed_Join(s, a, b)
    [] OTHER -> Throw(s, "nil dereference")

\* r.Locs(), as the set of locations the returned map holds
Locs(s, r) ==
  CASE r.tag = "Succeeded" -> [s |-> s, locs |-> s.heap[r.locs]]
    [] r.tag = "Failed" -> [s |-> s, locs |-> {}]
    [] OTHER -> [s |-> Panic(s, "nil dereference"), locs |-> {}]

\* r.value()
value(s, r) ==
  CASE r.tag = "Succeeded" -> [s |-> s, v |-> r.v]
    [] r.tag = "Failed" -> [s |-> s, v |-> NilValue]
    [] OTHER -> [s |-> Panic(s, "nil dereference"), v |-> NilValue]

\* r.Errors()
Errors(s, r) ==
  CASE r.tag = "Succeeded" -> [s |-> s, errs |-> <<>>]
    [] r.tag = "Failed" -> [s |-> s, errs |-> r.errs]
    [] OTHER -> [s |-> Panic(s, "nil dereference"), errs |-> <<>>]

(***************************************************************************)
(* Maps no Result refers to any more are garbage: Collect keeps the maps   *)
(* the Results rs refer to, numbered in the order rs mentions them.        *)
(***************************************************************************)
RECURSIVE RefOrder(_, _)
RefOrder(rs, acc) ==
  IF rs = <<>> THEN acc
  ELSE LET r == Head(rs)
           seen == \E i \in 1..Len(acc) : acc[i] = r.locs
       IN RefOrder(Tail(rs),
            IF r.tag = "Succeeded" /\ ~seen THEN Append(acc, r.locs)
            ELSE acc)

Collect(h, rs) ==
  LET ord == RefOrder(rs, <<>>)
      idx(ref) == CHOOSE i \in 1..Len(ord) : ord[i] = ref
  IN [heap |-> [i \in 1..Len(ord) |-> h[ord[i]]],
      rs |-> [j \in 1..Len(rs) |->
               IF rs[j].tag = "Succeeded"
               THEN [rs[j] EXCEPT !.locs = idx(rs[j].locs)]
               ELSE rs[j]]]

\* the location set of a Result in a heap ({} unless it is a Succeeded)
LocSet(h, r) == IF r.tag = "Succeeded" THEN h[r.locs] ELSE {}

(***************************************************************************)
(* Empty                                                                   *)
(***************************************************************************)
NewEmpty(v) == [kind |-> "Empty", value |-> v]

\* a Parse that steps over a token, as Term does
Empty_ParseInc(e, s) == NewSucceeded(Inc(s), e.value, Loc(Inc(s)))

Empty_Parse(e, s) == NewSucceeded(s, e.value, Loc(s))

(***************************************************************************)
(* Term                                                                    *)
(***************************************************************************)
ScanErrNone == 0
ScanErrEOF == -1
ScanErrMsg == -2

NewScanErr(errType, errMsg) == [ErrType |-> errType, ErrMsg |-> errMsg]

\* Tokeniser.Line and Tokeniser.Column: the position of the token scanned
\* last (every token of the input is one column wide, all on line 1)
Line(s) == IF s.scanPos = 0 THEN 0 ELSE 1

Column(s) == s.scanPos

\* Tokeniser.Peek as Term calls it: the flag ok of tokeniser.Peek, reported
\* as a ScanErr
PeekScanErr(s) ==
  LET o == Peek(s)
  IN [s |-> o.s, token |-> o.token,
      scanErr |-> IF o.ok THEN NewScanErr(ScanErrNone, "")
                  ELSE NewScanErr(ScanErrEOF, "")]

\* strconv.ParseInt(s, 10, 64) on the integer literals of the model: "0x1"
\* is a literal of the scanner that is not a decimal number
DecimalValue == [t \in {"1", "2", "3"} |-> CASE t = "1" -> 1
                                            [] t = "2" -> 2
                                            [] t = "3" -> 3]

\* converters that take any text for a number
converterLenient(c, text) ==
  CASE c = "ParseInt" ->
         IF text \in DOMAIN DecimalValue
         THEN [v |-> IntValue(DecimalValue[text]), failed |-> FALSE]
         ELSE [v |-> IntValue(0), failed |-> FALSE]
    [] OTHER -> [v |-> StrValue(text), failed |-> FALSE]

\* the converters: the value and whether the conversion failed
converter(c, text) ==
  CASE c = "ParseInt" ->
         IF text \in DOMAIN DecimalValue
         THEN [v |-> IntValue(DecimalValue[text]), failed |-> FALSE]
         ELSE [v |-> IntValue(0), failed |-> TRUE]
    [] OTHER -> [v |-> StrValue(text), failed |-> FALSE]

NewTerm(name, category) ==
  [kind |-> "Term", name |-> name, category |-> category, exactMatch |-> "",
   converter |-> "identity"]

WithExactMatch(t, m) == [t EXCEPT !.exactMatch = m]

WithConverter(t, c) == [t EXCEPT !.converter = c]

Id(m) == WithExactMatch(NewTerm("identifer", scanner_Ident), m)

Int_ == WithConverter(NewTerm("integer", scanner_Int), "ParseInt")

\* a Parse that returns Succeeded without stepping over the token
Term_ParseNoInc(t, s) ==
  LET pk == PeekScanErr(s)
      c == converter(t.converter, pk.token.match)
  IN IF pk.s.err # "none" THEN Throw(pk.s, pk.s.err)
     ELSE IF pk.scanErr.ErrType = ScanErrEOF
     THEN Ret(pk.s, Halt_WithLineAndColumn(
                      NewHalt("scanner", "end of file"), Line(s), Column(s)))
     ELSE IF \/ pk.token.category # t.category
             \/ t.exactMatch # "" /\ pk.token.match # t.exactMatch
     THEN Ret(pk.s, NewScanFailed(t.name, pk.token.match, Line(s), Column(s)))
     ELSE IF c.failed
     THEN Ret(pk.s, Halt_WithLineAndColumn(
                      NewHalt("conversion", "went wrong"), Line(s), Column(s)))
     ELSE NewSucceeded(pk.s, c.v, Loc(pk.s))

\* a Parse that takes the end of the input for a token that does not match,
\* and a failed conversion for one that does
Term_ParseNoHalt(t, s) ==
  LET pk == PeekScanErr(s)
      c == converter(t.converter, pk.token.match)
      s2 == Inc(pk.s)
  IN IF pk.s.err # "none" THEN Throw(pk.s, pk.s.err)
     ELSE IF \/ pk.scanErr.ErrType = ScanErrEOF
             \/ pk.token.category # t.category
             \/ t.exactMatch # "" /\ pk.token.match # t.exactMatch
     THEN Ret(pk.s, NewScanFailed(t.name, pk.token.match, Line(s), Column(s)))
     ELSE NewSucceeded(s2, c.v, Loc(s2))

\* a Term that reports the location after the one it stopped at
Term_ParseAhead(t, s) ==
  LET pk == PeekScanErr(s)
      token == pk.token
  IN IF pk.s.err # "none" THEN Throw(pk.s, pk.s.err)
     ELSE IF pk.scanErr.ErrType # ScanErrNone
     THEN Ret(pk.s, Halt_WithLineAndColumn(
                      NewHalt("scanner", "end of file"), Line(s), Column(s)))
     ELSE IF \/ token.category # t.category
             \/ t.exactMatch # "" /\ token.match # t.exactMatch
     THEN Ret(pk.s, NewScanFailed(t.name, token.match, Line(s), Column(s)))
     ELSE LET c == converter(t.converter, token.match)
              s2 == Inc(pk.s)
          IN IF c.failed
             THEN Ret(pk.s, Halt_WithLineAndColumn(
                    NewHalt("conversion", "went wrong"), Line(s), Column(s)))
             ELSE NewSucceeded(s2, c.v, Loc(s2) + 1)

Term_Parse(t, s) ==
  LET tokLine == Line(s)
      tokCol == Column(s)
      pk == PeekScanErr(s)
      token == pk.token
  IN IF pk.s.err # "none" THEN Throw(pk.s, pk.s.err)
     ELSE CASE pk.scanErr.ErrType = ScanErrEOF ->
                 Ret(pk.s, Halt_WithLineAndColumn(
                             NewHalt("scanner", "end of file"), tokLine, tokCol))
            [] pk.scanErr.ErrType = ScanErrMsg ->
                 Ret(pk.s, Halt_WithLineAndColumn(
                             NewHalt("scanner", pk.scanErr.ErrMsg), tokLine, tokCol))
            [] OTHER ->
                 IF \/ token.category # t.category
                    \/ t.exactMatch # "" /\ token.match # t.exactMatch
                 THEN Ret(pk.s, NewScanFailed(t.name, token.match, tokLine, tokCol))
                 ELSE LET c == converter(t.converter, token.match)
                          s2 == Inc(pk.s)
                      IN IF c.failed
                         THEN Ret(pk.s, Halt_WithLineAndColumn(
                                NewHalt("conversion", "went wrong"), tokLine, tokCol))
                         ELSE NewSucceeded(s2, c.v, Loc(s2))

(***************************************************************************)
(* M, the chain of continuations.  A continuation (lazy) is a record that  *)
(* says which closure it is; lazy(l, v) is the call of that closure.       *)
(***************************************************************************)
NewM(f) ==
  [kind |-> "M", name |-> "", folder |-> f, result |-> EmptyFailed,
   lazies |-> <<>>]

WithName(m, n) == [m EXCEPT !.name = n]

WithResult(m, r) == [m EXCEPT !.result = r]

WithLazies(m, ls) == [m EXCEPT !.lazies = m.lazies \o ls]

\* NewLazy(p): the continuation func(V) Parser { return p }
NewLazy(p) == [kind |-> "NewLazy", p |-> p]

\* Wrap(f): the continuation func(r V) Parser { return NewEmpty(f(r)) }
Wrap(f) == [kind |-> "Wrap", f |-> f]

M_Lazy(m, ls) ==
  WithLazies(WithLazies(WithResult(NewM(m.folder), m.result), m.lazies), ls)

M_Chain(m, p) == M_Lazy(m, << NewLazy(p) >>)

M_Return(m, f) == M_Lazy(m, << Wrap(f) >>)

\* the closure a client writes to nest a chain:
\* func(v any) Parser { return f1(v).Lazy(f2) }
Nested(f1, f2) == [kind |-> "Nested", f1 |-> f1, f2 |-> f2]

Seq_(n, p) == M_Chain(WithName(NewM("Seq"), n), p)

Either(n, p) == M_Chain(WithName(NewM("Either"), n), p)

\* m.Passthrough(p): the continuation parses p in a chain of its own and
\* returns the value v it was called with
M_Passthrough(m, p) ==
  LET n == M_Chain(NewM(m.folder), p)
  IN M_Lazy(m, << [kind |-> "Passthrough", n |-> n] >>)

\* string(category) for the characters of the arithmetic grammar
RuneString == [c \in { LParen, RParen, Plus } |->
                 CASE c = LParen -> "(" [] c = RParen -> ")" [] c = Plus -> "+"]

Text(category) == NewTerm(RuneString[category], category)

M_Text(m, category) == M_Passthrough(m, Text(category))

SeqText(name, category) == Seq_(name, Text(category))

EitherInt(name) == Either(name, Int_)

\* func(any) Parser { return expr }
ExprRef == [kind |-> "ExprRef"]

\* func(a any) Parser { return Seq("subexpr", expr).Return(b -> a + b) }
AddTo == [kind |-> "AddTo"]

\* <subexpr> -> `(` <expr> `+` <expr> `)`
subexpr ==
  M_Text(M_Lazy(M_Text(M_Lazy(SeqText("subexpr", LParen), << ExprRef >>),
                       Plus), << AddTo >>), RParen)

\* <expr> -> <expr> | <subexpr>: the first continuation refers back to expr
\* before any token is consumed
exprLeft ==
  M_Chain(M_Lazy(WithName(NewM("Either"), "expr"), << ExprRef >>), subexpr)

\* <expr> -> <int> | <subexpr>
expr == M_Chain(EitherInt("expr"), subexpr)

\* the value of a failed type assertion: the panic it raises
PanicValue == [t |-> "panic", s |-> "", i |-> 0]

\* the functions handed to Return and Wrap
apply(f, v) ==
  CASE f.kind = "const" -> f.v
    [] f.kind = "add" -> IF f.a.t = "int" /\ v.t = "int"
                         THEN IntValue(f.a.i + v.i)
                         ELSE PanicValue
    [] OTHER -> v

RECURSIVE lazy(_, _)
lazy(l, v) ==
  CASE l.kind = "NewLazy" -> l.p
    [] l.kind = "Wrap" -> NewEmpty(apply(l.f, v))
    [] l.kind = "Nested" -> M_Lazy(lazy(l.f1, v), << l.f2 >>)
    [] l.kind = "Passthrough" -> M_Return(l.n, [kind |-> "const", v |-> v])
    [] l.kind = "ExprRef" -> expr
    [] l.kind = "AddTo" ->
         M_Return(Seq_("subexpr", expr), [kind |-> "add", a |-> v])

(***************************************************************************)
(* Parse.  Ranging over a Go map visits its keys in an order the runtime   *)
(* chooses, so Parse yields the set of the outcomes [s, r] it can have.    *)
(* depth bounds the nesting of calls; running out of it is Go's fatal      *)
(* stack overflow.                                                         *)
(***************************************************************************)
RECURSIVE Parse(_, _, _), M_Parse(_, _, _), folder(_, _, _),
          SeqRange(_, _, _, _, _, _)

Parse(p, s, depth) ==
  IF depth <= 0 THEN { Throw(s, "stack overflow") }
  ELSE CASE p.kind = "Empty" ->
              IF p.value = PanicValue
              THEN { Throw(s, "interface conversion") }
              ELSE { Empty_Parse(p, s) }
         [] p.kind = "Term" -> { Term_Parse(p, s) }
         [] p.kind = "M" -> M_Parse(p, s, depth)

\* a Parse that hands a Halt to the folder like any other Result
M_ParseNoHalt(m, s, depth) ==
  IF Len(m.lazies) = 0 THEN { Ret(s, NilResult) }
  ELSE LET val == value(s, m.result)
       IN IF val.s.err # "none" THEN { Throw(val.s, val.s.err) }
          ELSE UNION {
                 IF o.s.err # "none" \/ Len(m.lazies) = 1
                 THEN { o }
                 ELSE folder(WithLazies(WithResult(WithName(NewM(m.folder),
                                m.name), o.r), Tail(m.lazies)), o.s, depth - 1)
                 : o \in Parse(lazy(m.lazies[1], val.v), val.s, depth - 1) }

\* a Parse that runs the first continuation of the queue and no more
M_ParseFirst(m, s, depth) ==
  IF Len(m.lazies) = 0 THEN { Ret(s, NilResult) }
  ELSE LET val == value(s, m.result)
       IN IF val.s.err # "none" THEN { Throw(val.s, val.s.err) }
          ELSE Parse(lazy(m.lazies[1], val.v), val.s, depth - 1)

\* a Parse that gives every continuation nil instead of the value of the
\* accumulated Result
M_ParseNilValue(m, s, depth) ==
  IF Len(m.lazies) = 0 THEN { Ret(s, NilResult) }
  ELSE UNION {
         IF o.s.err # "none" \/ o.r.tag = "Halt" \/ Len(m.lazies) = 1
         THEN { o }
         ELSE folder(WithLazies(WithResult(WithName(NewM(m.folder),
                        m.name), o.r), Tail(m.lazies)), o.s, depth - 1)
         : o \in Parse(lazy(m.lazies[1], NilValue), s, depth - 1) }

M_Parse(m, s, depth) ==
  IF Len(m.lazies) = 0 THEN { Ret(s, NilResult) }
  ELSE LET val == value(s, m.result)
       IN IF val.s.err # "none" THEN { Throw(val.s, val.s.err) }
          ELSE UNION {
                 IF o.s.err # "none" \/ o.r.tag = "Halt" \/ Len(m.lazies) = 1
                 THEN { o }
                 ELSE folder(WithLazies(WithResult(WithName(NewM(m.folder),
                                m.name), o.r), Tail(m.lazies)), o.s, depth - 1)
                 : o \in Parse(lazy(m.lazies[1], val.v), val.s, depth - 1) }

\* a loop that runs every attempt from where the one before left the cursor
SeqRangeNoSeek(c, todo, done, r, s, depth) ==
  IF todo = {} THEN { Ret(s, r) }
  ELSE UNION {
    UNION {
      IF o.s.err # "none" THEN { o }
      ELSE LET j == Join(o.s, r, o.r)
           IN IF j.s.err # "none" THEN { j }
              ELSE SeqRange(c, todo \ {l}, done \cup {l}, j.r, j.s, depth)
      : o \in M_Parse(c, s, depth - 1) }
    : l \in todo }

\* the loop of the Seq folder: todo are the keys of the map still to visit,
\* done those visited, r the Result joined so far.  A key added to the map
\* while it is ranged over may be visited or not.
SeqRange(c, todo, done, r, s, depth) ==
  IF todo = {} THEN { Ret(s, r) }
  ELSE UNION {
    LET s1 == Seek(s, l)
    IN IF s1.err # "none" THEN { Throw(s1, s1.err) }
       ELSE UNION {
         IF o.s.err # "none" THEN { o }
         ELSE LET j == Join(o.s, r, o.r)
                  added == j.s.heap[c.result.locs] \ (todo \cup done)
              IN IF j.s.err # "none" THEN { j }
                 ELSE UNION { SeqRange(c, (todo \ {l}) \cup more,
                                done \cup {l}, j.r, j.s, depth)
                              : more \in SUBSET added }
         : o \in M_Parse(c, s1, depth - 1) }
    : l \in todo }

\* a Seq folder that runs the next continuation after a Failed as well
folderGoOn(c, s, depth) ==
  IF depth <= 0 THEN { Throw(s, "stack overflow") }
  ELSE CASE c.folder = "Seq" /\ c.result.tag = "Succeeded" ->
              LET ls == Locs(s, c.result)
              IN SeqRange(c, ls.locs, {}, NewFailed("", ""), ls.s, depth)
         [] OTHER ->
              UNION { IF o.s.err # "none" THEN { o }
                      ELSE { Join(o.s, c.result, o.r) }
                      : o \in M_Parse(c, s, depth - 1) }

folder(c, s, depth) ==
  IF depth <= 0 THEN { Throw(s, "stack overflow") }
  ELSE CASE c.folder = "Seq" ->
              LET r == CASE c.result.tag = "Failed" -> c.result
                         [] c.result.tag = "Succeeded" -> NewFailed("", "")
                         [] OTHER -> NilResult
                  ls == Locs(s, c.result)
              IN IF ls.s.err # "none" THEN { Throw(ls.s, ls.s.err) }
                 ELSE SeqRange(c, ls.locs, {}, r, ls.s, depth)
         [] c.folder = "Either" ->
              UNION { IF o.s.err # "none" THEN { o }
                      ELSE { Join(o.s, c.result, o.r) }
                      : o \in M_Parse(c, s, depth - 1) }

(***************************************************************************)
(* The token stream and its clients: calls on the tokeniser in any order.  *)
(***************************************************************************)
\* no parser: the p of a call that is not a Parse
NilParser == [kind |-> "nil"]

NoCall == [op |-> "none", arg |-> 0, v |-> NilValue, token |-> ZeroToken,
           ok |-> FALSE, again |-> FALSE, p |-> NilParser]

NoAlg == [op |-> "none", reg |-> ""]

NoPeeks == [k \in {} |-> ZeroToken]

\* no chain node built yet
NoMem == [nodes |-> <<>>, arrays |-> <<>>]

Init ==
  /\ input \in Inputs
  /\ tokens = newTokeniser.tokens
  /\ loc = newTokeniser.loc
  /\ scanPos = newTokeniser.scanPos
  /\ heap = <<>>
  /\ err = "none"
  /\ result = NilResult
  /\ last = NoCall
  /\ peeked = NoPeeks
  /\ ra = NilResult
  /\ rb = NilResult
  /\ rr = NilResult
  /\ alg = NoAlg
  /\ mem = NoMem

\* the tokeniser after a call that left the machine in state s
SetTokeniser(s) ==
  /\ tokens' = s.tokens
  /\ loc' = s.loc
  /\ scanPos' = s.scanPos
  /\ err' = s.err

\* the caller holds a Result only until its next call on the stream
DropResult ==
  /\ heap' = <<>>
  /\ result' = NilResult

CallInc ==
  /\ err = "none"
  /\ loc <= MaxInput
  /\ SetTokeniser(Inc(Cur))
  /\ last' = [NoCall EXCEPT !.op = "Inc"]
  /\ DropResult
  /\ UNCHANGED <<input, peeked, ra, rb, rr, alg, mem>>

CallDec ==
  /\ err = "none"
  /\ loc >= 0
  /\ SetTokeniser(Dec(Cur))
  /\ last' = [NoCall EXCEPT !.op = "Dec"]
  /\ DropResult
  /\ UNCHANGED <<input, peeked, ra, rb, rr, alg, mem>>

CallSeek(k) ==
  /\ err = "none"
  /\ SetTokeniser(Seek(Cur, k))
  /\ last' = [NoCall EXCEPT !.op = "Seek", !.arg = k]
  /\ DropResult
  /\ UNCHANGED <<input, peeked, ra, rb, rr, alg, mem>>

CallPeek ==
  /\ err = "none"
  /\ LET o == Peek(Cur)
         first == o.ok /\ loc \notin DOMAIN peeked
     IN /\ SetTokeniser(o.s)
        /\ last' = [NoCall EXCEPT !.op = "Peek", !.token = o.token,
                                  !.ok = o.ok, !.again = loc \in DOMAIN peeked]
        /\ peeked' = IF first
                     THEN [k \in DOMAIN peeked \cup {loc} |->
                            IF k = loc THEN o.token ELSE peeked[k]]
                     ELSE peeked
  /\ DropResult
  /\ UNCHANGED <<input, ra, rb, rr, alg, mem>>

\* the values a client gives to NewEmpty and NewSucceeded
Values == { StrValue("a"), IntValue(1) }

\* the caller keeps the Result a Parse returned and drops the one before
SetResult(o) ==
  LET c == Collect(o.s.heap, << o.r >>)
  IN /\ SetTokeniser(o.s)
     /\ heap' = c.heap
     /\ result' = c.rs[1]

CallEmptyParse(v) ==
  /\ err = "none"
  /\ SetResult(Empty_Parse(NewEmpty(v), Cur))
  /\ last' = [NoCall EXCEPT !.op = "Empty.Parse", !.v = v]
  /\ UNCHANGED <<input, peeked, ra, rb, rr, alg, mem>>

(***************************************************************************)
(* The chains a client builds: a chain a of one parser, extended by two    *)
(* continuations f1 and f2, either one after the other or with f2 nested   *)
(* in the chain that f1 returns.                                           *)
(***************************************************************************)
Identity == [kind |-> "identity"]

ChainHeads == { Seq_("s", Id("a")), Either("e", Id("a")) }

Inner ==
  { NewLazy(Seq_("t", Id("b"))),
    NewLazy(Either("u", Id("b"))),
    NewLazy(M_Chain(Seq_("t", Id("b")), Int_)) }

Tails == { NewLazy(Int_), NewLazy(Id("b")), Wrap(Identity) }

\* a.Lazy(f1).Lazy(f2)
Unnested(a, f1, f2) == M_Lazy(M_Lazy(a, << f1 >>), << f2 >>)

\* a.Lazy(func(v any) Parser { return f1(v).Lazy(f2) })
Nesting(a, f1, f2) == M_Lazy(a, << Nested(f1, f2) >>)

Grammars ==
  { Unnested(a, f1, f2) : a \in ChainHeads, f1 \in Inner, f2 \in Tails }
  \cup { Nesting(a, f1, f2) : a \in ChainHeads, f1 \in Inner, f2 \in Tails }

CallParse(g) ==
  /\ err = "none"
  /\ \E o \in Parse(g, Cur, MaxDepth) : SetResult(o)
  /\ last' = [NoCall EXCEPT !.op = "M.Parse", !.p = g]
  /\ UNCHANGED <<input, peeked, ra, rb, rr, alg, mem>>

Next ==
  \/ CallInc
  \/ CallDec
  \/ \E k \in -1..(MaxInput + 1) : CallSeek(k)
  \/ CallPeek
  \/ \E v \in Values : CallEmptyParse(v)

Spec == Init /\ [][Next]_vars

(***************************************************************************)
(* A client that parses: it runs the chains on the stream, and moves the   *)
(* cursor with Seek between two runs.                                      *)
(***************************************************************************)
NextParse ==
  \/ \E g \in Grammars : CallParse(g)
  \/ \E k \in -1..(MaxInput + 1) : CallSeek(k)

SpecParse == Init /\ [][NextParse]_vars

(***************************************************************************)
(* A client of Term: it parses single tokens with the shorthands Id and    *)
(* Int, and moves the cursor with Seek.  "0x1" is an integer literal of    *)
(* the scanner that strconv.ParseInt(s, 10, 64) refuses.                   *)
(***************************************************************************)
TermAlphabet == Alphabet \cup { NewToken(scanner_Int, "0x1") }

Terms == { Id("a"), Id("b"), Int_ }

InitTerm ==
  /\ input \in SeqsUpTo(TermAlphabet, MaxInput)
  /\ tokens = newTokeniser.tokens
  /\ loc = newTokeniser.loc
  /\ scanPos = newTokeniser.scanPos
  /\ heap = <<>>
  /\ err = "none"
  /\ result = NilResult
  /\ last = NoCall
  /\ peeked = NoPeeks
  /\ ra = NilResult
  /\ rb = NilResult
  /\ rr = NilResult
  /\ alg = NoAlg
  /\ mem = NoMem

CallTermParse(t) ==
  /\ err = "none"
  /\ SetResult(Term_Parse(t, Cur))
  /\ last' = [NoCall EXCEPT !.op = "Term.Parse", !.p = t]
  /\ UNCHANGED <<input, peeked, ra, rb, rr, alg, mem>>

NextTerm ==
  \/ \E t \in Terms : CallTermParse(t)
  \/ \E k \in -1..(MaxInput + 1) : CallSeek(k)

SpecTerm == InitTerm /\ [][NextTerm]_vars

(***************************************************************************)
(* A client of Seq and Either: chains of up to MaxChain Terms, and a Seq   *)
(* whose first parser is ambiguous: Either(Empty).Chain(Id("a")) succeeds  *)
(* at the cursor and, on the token a, behind it as well.                   *)
(***************************************************************************)
MaxChain == 2    \* longest chain of Terms

RECURSIVE TermChains(_, _)
TermChains(f, n) ==
  IF n = 1
  THEN { IF f = "Seq" THEN Seq_("s", t) ELSE Either("e", t) : t \in Terms }
  ELSE LET shorter == TermChains(f, n - 1)
       IN shorter \cup { M_Chain(c, t) : c \in shorter, t \in Terms }

Ambiguous == M_Chain(Either("e", NewEmpty(StrValue("a"))), Id("a"))

FanOuts == { M_Chain(Seq_("s", Ambiguous), t) : t \in Terms }

ChainGrammars ==
  TermChains("Seq", MaxChain) \cup TermChains("Either", MaxChain) \cup FanOuts

\* the client runs one chain, looks at the Result, and seeks before it runs
\* the next
NextChain ==
  \/ \E g \in ChainGrammars : result = NilResult /\ CallParse(g)
  \/ \E k \in -1..(MaxInput + 1) : CallSeek(k)

SpecChain == Init /\ [][NextChain]_vars

(***************************************************************************)
(* A client of the folders: besides the chains of Terms and the fan-outs   *)
(* it runs chains extended with Passthrough, and an Either of two Seq      *)
(* chains that start with the same Term.  The inputs hold the literal 0x1, *)
(* on which Int halts.                                                     *)
(***************************************************************************)
FoldAlphabet ==
  { NewToken(scanner_Ident, "a"), NewToken(scanner_Int, "1"),
    NewToken(scanner_Int, "0x1") }

PassHeads ==
  { Seq_("s", t) : t \in Terms } \cup { Either("e", t) : t \in Terms }
    \cup { Seq_("s", Ambiguous) }

Passthroughs == { M_Passthrough(m, p) : m \in PassHeads, p \in Terms }

\* Either(Seq(Id("a")).Chain(Id("b"))).Chain(Seq(Id("a")).Chain(Int()))
Alternatives ==
  M_Chain(Either("e", M_Chain(Seq_("s", Id("a")), Id("b"))),
          M_Chain(Seq_("s", Id("a")), Int_))

FoldGrammars ==
  ChainGrammars \cup Passthroughs
    \cup { M_Chain(m, p) : m \in PassHeads, p \in Terms } \cup { Alternatives }

InitFold ==
  /\ input \in SeqsUpTo(FoldAlphabet, MaxInput)
  /\ tokens = newTokeniser.tokens
  /\ loc = newTokeniser.loc
  /\ scanPos = newTokeniser.scanPos
  /\ heap = <<>>
  /\ err = "none"
  /\ result = NilResult
  /\ last = NoCall
  /\ peeked = NoPeeks
  /\ ra = NilResult
  /\ rb = NilResult
  /\ rr = NilResult
  /\ alg = NoAlg
  /\ mem = NoMem

NextFold ==
  \/ \E g \in FoldGrammars : result = NilResult /\ CallParse(g)
  \/ \E k \in -1..(MaxInput + 1) : CallSeek(k)

SpecFold == InitFold /\ [][NextFold]_vars

(***************************************************************************)
(* A client of the types package: it makes a node with NewM, gives it a    *)
(* Result with WithResult and no continuation, and parses it.              *)
(***************************************************************************)
\* NewM(f).WithResult(r) for the Results r a client can make at the cursor
EmptyNodes(s) ==
  LET ok == NewSucceeded(s, StrValue("a"), s.loc)
  IN UNION {
       { [s |-> s, m |-> NewM(f)],
         [s |-> s, m |-> WithResult(NewM(f), NewFailed("identifer", "a"))],
         [s |-> s, m |-> WithResult(NewM(f), NewHalt("scanner", "end of file"))],
         [s |-> ok.s, m |-> WithResult(NewM(f), ok.r)] }
       : f \in { "Seq", "Either" } }

CallNodeParse(n) ==
  /\ err = "none"
  /\ \E o \in Parse(n.m, n.s, MaxDepth) : SetResult(o)
  /\ last' = [NoCall EXCEPT !.op = "M.Parse", !.p = n.m]
  /\ UNCHANGED <<input, peeked, ra, rb, rr, alg, mem>>

NextNode ==
  \/ \E n \in EmptyNodes(Cur) : CallNodeParse(n)
  \/ \E k \in -1..(MaxInput + 1) : CallSeek(k)

SpecNode == InitFold /\ [][NextNode]_vars

(***************************************************************************)
(* A client of Lazy: Seq chains that start with Int and go on with up to   *)
(* MaxLazies continuations, each one adding to the value it is given or    *)
(* returning Int whatever it is given.                                     *)
(***************************************************************************)
MaxLazies == 2

AddOne == Wrap([kind |-> "add", a |-> IntValue(1)])

AddTwo == Wrap([kind |-> "add", a |-> IntValue(2)])

Continuations == { AddOne, AddTwo, NewLazy(Int_) }

RECURSIVE LazyChains(_)
LazyChains(n) ==
  IF n = 0 THEN { Seq_("s", Int_) }
  ELSE LET shorter == LazyChains(n - 1)
       IN shorter \cup { M_Lazy(c, << l >>) : c \in shorter, l \in Continuations }

NextLazy ==
  \/ \E g \in LazyChains(MaxLazies) : result = NilResult /\ CallParse(g)
  \/ \E k \in -1..(MaxInput + 1) : CallSeek(k)

SpecLazy == InitFold /\ [][NextLazy]_vars

(***************************************************************************)
(* A client of the arithmetic grammar: it parses expr from the start of    *)
(* an input that is a sentence of the grammar with up to MaxOps additions, *)
(* or such a sentence cut short, and may seek back to the start.           *)
(***************************************************************************)
MaxOps == 2      \* most additions in a sentence

Literals == { NewToken(scanner_Int, d) : d \in DOMAIN DecimalValue }

RECURSIVE Sentences(_)
Sentences(n) ==
  IF n = 0 THEN { << l >> : l \in Literals }
  ELSE UNION { { << NewToken(LParen, "(") >> \o a \o << NewToken(Plus, "+") >>
                   \o b \o << NewToken(RParen, ")") >>
                 : a \in Sentences(j), b \in Sentences(n - 1 - j) }
               : j \in 0..(n - 1) }

ArithSentences == UNION { Sentences(n) : n \in 0..MaxOps }

Truncated == UNION { { SubSeq(q, 1, n) : n \in 1..(Len(q) - 1) }
                     : q \in ArithSentences }

InitArith ==
  /\ input \in ArithSentences \cup Truncated
  /\ tokens = newTokeniser.tokens
  /\ loc = newTokeniser.loc
  /\ scanPos = newTokeniser.scanPos
  /\ heap = <<>>
  /\ err = "none"
  /\ result = NilResult
  /\ last = NoCall
  /\ peeked = NoPeeks
  /\ ra = NilResult
  /\ rb = NilResult
  /\ rr = NilResult
  /\ alg = NoAlg
  /\ mem = NoMem

NextArith ==
  \/ result = NilResult /\ CallParse(expr)
  \/ CallSeek(0)

SpecArith == InitArith /\ [][NextArith]_vars

(***************************************************************************)
(* Chain nodes as the objects they are in Go.  A *M is an index into       *)
(* mem.nodes; its queue is a slice [arr, len, cap] of an array of          *)
(* mem.arrays (arr = 0 is the nil slice).  WithName, WithResult and        *)
(* WithLazies assign to the node they are called on.  When append has to   *)
(* grow a slice, the runtime chooses how much spare room the new array     *)
(* gets.                                                                   *)
(***************************************************************************)
MaxNodes == 5    \* most chain nodes a client builds
MaxRoom == 1     \* most spare room of a newly allocated array

NilSlice == [arr |-> 0, len |-> 0, cap |-> 0]

\* the zero value of an array slot that no slice has reached yet
ZeroLazy == [kind |-> "nil"]

\* the elements of a slice
Elems(mm, sl) ==
  IF sl.len = 0 THEN <<>> ELSE SubSeq(mm.arrays[sl.arr], 1, sl.len)

\* append(sl, xs...): in place when the capacity allows it, else into a new
\* array with `room` spare slots
append(mm, sl, xs, room) ==
  IF Len(xs) = 0 THEN [mem |-> mm, slice |-> sl]
  ELSE IF sl.len + Len(xs) <= sl.cap
  THEN [mem |-> [mm EXCEPT !.arrays[sl.arr] =
                   [k \in 1..sl.cap |->
                      IF k > sl.len /\ k <= sl.len + Len(xs)
                      THEN xs[k - sl.len] ELSE @[k]]],
        slice |-> [sl EXCEPT !.len = sl.len + Len(xs)]]
  ELSE [mem |-> [mm EXCEPT !.arrays =
                   Append(@, Elems(mm, sl) \o xs
                               \o [k \in 1..room |-> ZeroLazy])],
        slice |-> [arr |-> Len(mm.arrays) + 1, len |-> sl.len + Len(xs),
                   cap |-> sl.len + Len(xs) + room]]

\* NewM: &M{folder: f, result: Failed{}}
Heap_NewM(mm, f) ==
  [mem |-> [mm EXCEPT !.nodes =
              Append(@, [name |-> "", folder |-> f, result |-> EmptyFailed,
                         lazies |-> NilSlice])],
   ref |-> Len(mm.nodes) + 1]

Heap_WithName(mm, m, n) == [mm EXCEPT !.nodes[m].name = n]

Heap_WithResult(mm, m, r) == [mm EXCEPT !.nodes[m].result = r]

Heap_WithLazies(mm, m, xs, room) ==
  LET a == append(mm, mm.nodes[m].lazies, xs, room)
  IN [a.mem EXCEPT !.nodes[m].lazies = a.slice]

\* a Lazy that appends to the receiver's slice and keeps what append returns
Heap_LazyShared(mm, m, ls, room) ==
  LET n == Heap_NewM(mm, mm.nodes[m].folder)
      m1 == Heap_WithResult(n.mem, n.ref, mm.nodes[m].result)
      a == append(m1, mm.nodes[m].lazies, ls, room)
  IN [mem |-> [a.mem EXCEPT !.nodes[n.ref].lazies = a.slice], ref |-> n.ref]

Heap_Lazy(mm, m, ls, room) ==
  LET n == Heap_NewM(mm, mm.nodes[m].folder)
      m1 == Heap_WithResult(n.mem, n.ref, mm.nodes[m].result)
      m2 == Heap_WithLazies(m1, n.ref, Elems(mm, mm.nodes[m].lazies), room)
  IN [mem |-> Heap_WithLazies(m2, n.ref, ls, room), ref |-> n.ref]

Heap_Chain(mm, m, p, room) == Heap_Lazy(mm, m, << NewLazy(p) >>, room)

Heap_Return(mm, m, f, room) == Heap_Lazy(mm, m, << Wrap(f) >>, room)

\* the continuation of Passthrough holds the pointer n to the chain of p
Heap_Passthrough(mm, m, p, room) ==
  LET n0 == Heap_NewM(mm, mm.nodes[m].folder)
      n == Heap_Chain(n0.mem, n0.ref, p, room)
  IN Heap_Lazy(n.mem, m, << [kind |-> "Passthrough", n |-> n.ref] >>, room)

\* Seq(n, p) and Either(n, p): NewM(folder).WithName(n).Chain(p)
Heap_Head(mm, f, n, p, room) ==
  LET h == Heap_NewM(mm, f)
  IN Heap_Chain(Heap_WithName(h.mem, h.ref, n), h.ref, p, room)

(***************************************************************************)
(* A client that runs the arithmetic grammar on any tokens: the sentences  *)
(* of the grammar, their prefixes, and every sequence of up to MaxInput    *)
(* brackets, plus signs and integers, from any cursor.                     *)
(***************************************************************************)
MaxNest == 6     \* deepest nesting of calls for one token of the input

ArithAlphabet ==
  { NewToken(LParen, "("), NewToken(Plus, "+"), NewToken(RParen, ")"),
    NewToken(scanner_Int, "1") }

InitStreams ==
  /\ input \in SeqsUpTo(ArithAlphabet, MaxInput) \cup ArithSentences
                 \cup Truncated
  /\ tokens = newTokeniser.tokens
  /\ loc = newTokeniser.loc
  /\ scanPos = newTokeniser.scanPos
  /\ heap = <<>>
  /\ err = "none"
  /\ result = NilResult
  /\ last = NoCall
  /\ peeked = NoPeeks
  /\ ra = NilResult
  /\ rb = NilResult
  /\ rr = NilResult
  /\ alg = NoAlg
  /\ mem = NoMem

NextStreams ==
  \/ result = NilResult /\ CallParse(expr)
  \/ \E k \in 0..MaxInput : CallSeek(k)

SpecStreams == InitStreams /\ [][NextStreams]_vars

(***************************************************************************)
(* A client that builds chains: it starts a chain with Seq or Either and   *)
(* extends any node it has built, any number of times.                     *)
(***************************************************************************)
InitBuild ==
  /\ input = <<>>
  /\ tokens = newTokeniser.tokens
  /\ loc = newTokeniser.loc
  /\ scanPos = newTokeniser.scanPos
  /\ heap = <<>>
  /\ err = "none"
  /\ result = NilResult
  /\ last = NoCall
  /\ peeked = NoPeeks
  /\ ra = NilResult
  /\ rb = NilResult
  /\ rr = NilResult
  /\ alg = NoAlg
  /\ mem = NoMem

\* the client keeps the node that a builder returned; new is the number of
\* nodes the builder allocates
Built(op, new, o) ==
  /\ mem' = o.mem
  /\ last' = [NoCall EXCEPT !.op = op]
  /\ UNCHANGED <<input, scanPos, tokens, loc, heap, err, result, peeked,
                 ra, rb, rr, alg>>

BuildHead(f) ==
  /\ mem = NoMem
  /\ \E room \in 0..MaxRoom :
       Built(f, 2, Heap_Head(mem, f, "s", Id("a"), room))

BuildLazy(m) ==
  /\ Len(mem.nodes) + 1 <= MaxNodes
  /\ \E room \in 0..MaxRoom :
       Built("M.Lazy", 1, Heap_Lazy(mem, m, << NewLazy(Int_) >>, room))

BuildChain(m) ==
  /\ Len(mem.nodes) + 1 <= MaxNodes
  /\ \E room \in 0..MaxRoom :
       Built("M.Chain", 1, Heap_Chain(mem, m, Id("b"), room))

BuildReturn(m) ==
  /\ Len(mem.nodes) + 1 <= MaxNodes
  /\ \E room \in 0..MaxRoom :
       Built("M.Return", 1, Heap_Return(mem, m, Identity, room))

BuildPassthrough(m) ==
  /\ Len(mem.nodes) + 3 <= MaxNodes
  /\ \E room \in 0..MaxRoom :
       Built("M.Passthrough", 3, Heap_Passthrough(mem, m, Id("b"), room))

NextBuild ==
  \/ \E f \in { "Seq", "Either" } : BuildHead(f)
  \/ \E m \in 1..Len(mem.nodes) : BuildLazy(m)
  \/ \E m \in 1..Len(mem.nodes) : BuildChain(m)
  \/ \E m \in 1..Len(mem.nodes) : BuildReturn(m)
  \/ \E m \in 1..Len(mem.nodes) : BuildPassthrough(m)

SpecBuild == InitBuild /\ [][NextBuild]_vars

(***************************************************************************)
(* A client of the Result algebra: it builds Results into ra and rb,       *)
(* combines them into rr, and may go on with rr in the place of ra.        *)
(***************************************************************************)
InitAlg ==
  /\ input = <<>>
  /\ tokens = newTokeniser.tokens
  /\ loc = newTokeniser.loc
  /\ scanPos = newTokeniser.scanPos
  /\ heap = <<>>
  /\ err = "none"
  /\ result = NilResult
  /\ last = NoCall
  /\ peeked = NoPeeks
  /\ ra = NilResult
  /\ rb = NilResult
  /\ rr = NilResult
  /\ alg = NoAlg
  /\ mem = NoMem

ParseErrors == { newParseError("identifer", "a"), newParseError("integer", "b") }

Halts == { NewHalt("scanner", "end of file"), NewHalt("conversion", "went wrong") }

\* the client's three Results after a call that left the heap h
SetRegs(h, e, a, b, r) ==
  LET c == Collect(h, << a, b, r >>)
  IN /\ heap' = c.heap
     /\ err' = e
     /\ ra' = c.rs[1]
     /\ rb' = c.rs[2]
     /\ rr' = c.rs[3]

\* the register reg takes the new Result r
Store(s, reg, r) ==
  IF reg = "ra" THEN SetRegs(s.heap, s.err, r, rb, rr)
  ELSE SetRegs(s.heap, s.err, ra, r, rr)

AlgNewSucceeded(reg, v, l) ==
  /\ err = "none"
  /\ LET o == NewSucceeded(Cur, v, l) IN Store(o.s, reg, o.r)
  /\ alg' = [op |-> "NewSucceeded", reg |-> reg]
  /\ UNCHANGED <<input, scanPos, tokens, loc, result, last, peeked, mem>>

AlgNewFailed(reg, e) ==
  /\ err = "none"
  /\ Store(Cur, reg, NewFailed(e.Expected, e.Found))
  /\ alg' = [op |-> "NewFailed", reg |-> reg]
  /\ UNCHANGED <<input, scanPos, tokens, loc, result, last, peeked, mem>>

AlgNewHalt(reg, h) ==
  /\ err = "none"
  /\ Store(Cur, reg, NewHalt(h.component, h.Message))
  /\ alg' = [op |-> "NewHalt", reg |-> reg]
  /\ UNCHANGED <<input, scanPos, tokens, loc, result, last, peeked, mem>>

AlgJoin ==
  /\ err = "none"
  /\ Len(ra.errs) + Len(rb.errs) <= MaxErrs
  /\ LET o == Join(Cur, ra, rb) IN SetRegs(o.s.heap, o.s.err, ra, rb, o.r)
  /\ alg' = [op |-> "Join", reg |-> "rr"]
  /\ UNCHANGED <<input, scanPos, tokens, loc, result, last, peeked, mem>>

AlgMerge ==
  /\ err = "none"
  /\ Len(ra.errs) + Len(rb.errs) <= MaxErrs
  /\ LET o == merge(Cur, ra, rb) IN SetRegs(o.s.heap, o.s.err, ra, rb, o.r)
  /\ alg' = [op |-> "merge", reg |-> "rr"]
  /\ UNCHANGED <<input, scanPos, tokens, loc, result, last, peeked, mem>>

\* the client goes on with the combined Result: a = r
AlgKeep ==
  /\ err = "none"
  /\ rr.tag # "nil"
  /\ SetRegs(heap, err, rr, rb, rr)
  /\ alg' = [op |-> "keep", reg |-> "ra"]
  /\ UNCHANGED <<input, scanPos, tokens, loc, result, last, peeked, mem>>

NextAlg ==
  \/ \E reg \in {"ra", "rb"}, v \in Values, l \in 0..MaxLocArg :
       AlgNewSucceeded(reg, v, l)
  \/ \E reg \in {"ra", "rb"}, e \in ParseErrors : AlgNewFailed(reg, e)
  \/ \E reg \in {"ra", "rb"}, h \in Halts : AlgNewHalt(reg, h)
  \/ AlgJoin
  \/ AlgMerge
  \/ AlgKeep

SpecAlg == InitAlg /\ [][NextAlg]_vars

(***************************************************************************)
(* Properties of the Result algebra (checked under SpecAlg).               *)
(***************************************************************************)

\* C1: Halt dominates Join in every pairing: whenever one of a, b is a Halt,
\* a.Join(b) returns that Halt, and the call does not panic.
C1_HaltDominatesJoin ==
  [][alg'.op = "Join" /\ (ra.tag = "Halt" \/ rb.tag = "Halt")
     => /\ err' = "none"
        /\ rr'.tag = "Halt"
        /\ rr' \in { h \in {ra, rb} : h.tag = "Halt" }
        /\ (rb.tag = "Halt" /\ ra.tag # "Halt" => rr' = rb)
        /\ (ra.tag = "Halt" /\ rb.tag # "Halt" => rr' = ra)]_vars

C3_MergeSucceeded ==
  [][alg'.op = "merge" /\ ra.tag = "Succeeded" /\ rb.tag = "Succeeded"
     => /\ err' = "none"
        /\ rr'.tag = "Succeeded"
        /\ LocSet(heap', rr') = LocSet(heap, ra) \cup LocSet(heap, rb)
        /\ rr'.v = rb.v
        /\ LET o == merge(Cur, rb, ra)
           IN LocSet(o.s.heap, o.r) = LocSet(heap', rr')]_vars

\* two successes with different locations and values were merged
C3_Witness ==
  /\ alg.op = "merge"
  /\ rr.tag = "Succeeded" /\ rb.tag = "Succeeded" /\ ra.tag = "Succeeded"
  /\ Cardinality(LocSet(heap, rr)) >= 2
  /\ LocSet(heap, rb) # LocSet(heap, rr)
  /\ ra.v # rb.v

\* C4: merging two Failed a and b gives a Failed whose parse errors are those
\* of a followed by those of b, duplicates kept.
C4_MergeFailed ==
  [][alg'.op = "merge" /\ ra.tag = "Failed" /\ rb.tag = "Failed"
     => /\ err' = "none"
        /\ rr'.tag = "Failed"
        /\ rr'.errs = ra.errs \o rb.errs
        /\ Len(rr'.errs) = Len(ra.errs) + Len(rb.errs)]_vars

\* two failures with different parse errors were merged
C4_Witness ==
  /\ alg.op = "merge"
  /\ ra.tag = "Failed" /\ rb.tag = "Failed" /\ rr.tag = "Failed"
  /\ ra.errs # <<>> /\ rb.errs # <<>>
  /\ ra.errs # rb.errs
  /\ Len(rr.errs) = 2

(***************************************************************************)
(* Properties of the token stream (checked under Spec).                    *)
(***************************************************************************)

\* C6: the cursor stays within 0..len(tokens): Dec at 0 and Inc at
\* len(tokens) panic and leave the cursor, any other Inc or Dec moves it by
\* exactly one.
C6_CursorInRange ==
  [][/\ (err' = "none" => 0 <= loc' /\ loc' <= Len(tokens'))
     /\ (last'.op = "Dec"
         => IF loc = 0 THEN err' # "none" /\ loc' = loc
            ELSE err' = "none" /\ loc' = loc - 1)
     /\ (last'.op = "Inc"
         => IF loc = Len(tokens) THEN err' # "none" /\ loc' = loc
            ELSE err' = "none" /\ loc' = loc + 1)]_vars

C8_BacktrackingDeterminism ==
  /\ \A k \in DOMAIN peeked : k < Len(tokens) /\ tokens[k + 1] = peeked[k]
  /\ last.op = "Peek" /\ last.ok => last.token = peeked[loc]
  /\ scanPos = Len(tokens)
  /\ \A i \in 1..Len(tokens) : tokens[i] = input[i]

\* a second Peek at a location, after the stream was scanned further
C8_Witness ==
  /\ last.op = "Peek"
  /\ last.ok
  /\ last.again
  /\ loc + 1 < Len(tokens)
  /\ tokens[loc + 1] # tokens[Len(tokens)]

\* C9: Peek never moves the cursor; it scans at most one token, appends it,
\* and only when loc = len(tokens); at the end of the input it returns
\* ok = false and changes nothing.
C9_PeekFrame ==
  [][last'.op = "Peek"
     => /\ loc' = loc
        /\ (tokens' # tokens \/ scanPos' # scanPos
            => /\ loc = Len(tokens)
               /\ scanPos' = scanPos + 1
               /\ tokens' = Append(tokens, input[scanPos + 1]))
        /\ (scanPos = Len(input) /\ loc >= Len(tokens)
            => ~last'.ok /\ tokens' = tokens /\ scanPos' = scanPos)]_vars

\* C10: Empty(v).Parse returns Succeeded with the one location loc and the
\* value v in every state of the stream, and changes neither the cursor nor
\* the scanned tokens.
C10_EmptyParse ==
  [][last'.op = "Empty.Parse"
     => /\ err' = "none"
        /\ result'.tag = "Succeeded"
        /\ LocSet(heap', result') = {loc}
        /\ result'.v = last'.v
        /\ result'.errs = <<>>
        /\ loc' = loc
        /\ tokens' = tokens
        /\ scanPos' = scanPos]_vars

\* Empty parsed at the end of a non-empty input
C10_Witness ==
  /\ last.op = "Empty.Parse"
  /\ result.tag = "Succeeded"
  /\ Len(input) > 0
  /\ scanPos = Len(input)
  /\ loc = Len(tokens)
  /\ LocSet(heap, result) = {Len(input)}

(***************************************************************************)
(* Properties of the chain engine (checked under SpecParse).               *)
(***************************************************************************)

\* what a caller can see of an outcome of Parse: the Result, with its
\* location set, and the panic if there was one
View(o) ==
  [tag |-> o.r.tag, locs |-> LocSet(o.s.heap, o.r), v |-> o.r.v,
   errs |-> o.r.errs, component |-> o.r.component, Message |-> o.r.Message,
   err |-> o.s.err]

Views(os) == { View(o) : o \in os }

\* C5: chaining is associative: a.Lazy(f1).Lazy(f2) and
\* a.Lazy(v -> f1(v).Lazy(f2)) return identical Results from every state of
\* every token stream.
C5_ChainingAssociative ==
  err = "none" =>
    \A a \in ChainHeads, f1 \in Inner, f2 \in Tails :
      Views(Parse(Unnested(a, f1, f2), Cur, MaxDepth))
        = Views(Parse(Nesting(a, f1, f2), Cur, MaxDepth))

(***************************************************************************)
(* Properties of Term.Parse (checked under SpecTerm).  The token at the    *)
(* cursor is input[loc + 1]; there is none once loc has reached the end of *)
(* the input.                                                              *)
(***************************************************************************)

\* C11: when the token at the cursor has the Term's category (and equals
\* exactMatch when one is set) and the converter succeeds, Term.Parse
\* advances the cursor by exactly one and returns Succeeded with the one
\* location loc + 1 and the converted text as value.
C11_TermParseSuccess ==
  [][/\ last'.op = "Term.Parse"
     /\ 0 <= loc /\ loc <= Len(tokens) /\ loc < Len(input)
     /\ input[loc + 1].category = last'.p.category
     /\ last'.p.exactMatch \in { "", input[loc + 1].match }
     /\ ~converter(last'.p.converter, input[loc + 1].match).failed
     => /\ err' = "none"
        /\ loc' = loc + 1
        /\ result'.tag = "Succeeded"
        /\ LocSet(heap', result') = {loc + 1}
        /\ result'.v = converter(last'.p.converter, input[loc + 1].match).v
        /\ result'.errs = <<>>]_vars

\* Int has parsed the literal 1 that is the second token of the input
C11_Witness ==
  /\ last.op = "Term.Parse"
  /\ last.p = Int_
  /\ Len(input) >= 2
  /\ input[2] = NewToken(scanner_Int, "1")
  /\ loc = 2
  /\ result.tag = "Succeeded"
  /\ result.v = IntValue(1)
  /\ LocSet(heap, result) = {2}

\* C12: Term.Parse at the end of the input (no token at the cursor) returns
\* Halt, never Failed, and does not move the cursor.
C12_TermParseEOF ==
  [][/\ last'.op = "Term.Parse"
     /\ 0 <= loc /\ loc >= Len(input)
     => /\ err' = "none"
        /\ result'.tag = "Halt"
        /\ loc' = loc]_vars

\* a Term has been parsed behind the last token of a non-empty input
C12_Witness ==
  /\ last.op = "Term.Parse"
  /\ Len(input) > 0
  /\ loc = Len(input)
  /\ scanPos = Len(input)
  /\ result.tag = "Halt"
  /\ result.component = "scanner"

\* C13: when there is a token at the cursor but its category differs from
\* the Term's, or exactMatch is set and the token text differs, Term.Parse
\* returns Failed with exactly one parse error (Expected the Term's name,
\* Found the text of the token) and leaves the cursor where it was.
C13_TermParseMismatch ==
  [][/\ last'.op = "Term.Parse"
     /\ 0 <= loc /\ loc <= Len(tokens) /\ loc < Len(input)
     /\ \/ input[loc + 1].category # last'.p.category
        \/ last'.p.exactMatch \notin { "", input[loc + 1].match }
     => /\ err' = "none"
        /\ result'.tag = "Failed"
        /\ Len(result'.errs) = 1
        /\ result'.errs[1].Expected = last'.p.name
        /\ result'.errs[1].Found = input[loc + 1].match
        /\ loc' = loc]_vars

\* Id("a") has met the identifier b as the second token of the input
C13_Witness ==
  /\ last.op = "Term.Parse"
  /\ last.p = Id("a")
  /\ Len(input) >= 2
  /\ input[2] = NewToken(scanner_Ident, "b")
  /\ loc = 1
  /\ result.tag = "Failed"
  /\ result.errs[1].Found = "b"

\* C14: when the token has the Term's category but the converter returns an
\* error, Term.Parse returns Halt of the component "conversion" (it neither
\* returns Failed nor panics) and does not advance the cursor.
C14_TermParseConversion ==
  [][/\ last'.op = "Term.Parse"
     /\ 0 <= loc /\ loc <= Len(tokens) /\ loc < Len(input)
     /\ input[loc + 1].category = last'.p.category
     /\ last'.p.exactMatch \in { "", input[loc + 1].match }
     /\ last'.p.converter = "ParseInt"
     /\ input[loc + 1].match \notin DOMAIN DecimalValue
     => /\ err' = "none"
        /\ result'.tag = "Halt"
        /\ result'.component = "conversion"
        /\ loc' = loc]_vars

\* Int has met the literal 0x1
C14_Witness ==
  /\ last.op = "Term.Parse"
  /\ last.p = Int_
  /\ 0 <= loc /\ loc < Len(input)
  /\ input[loc + 1] = NewToken(scanner_Int, "0x1")
  /\ result.tag = "Halt"
  /\ result.component = "conversion"

(***************************************************************************)
(* Properties of Seq and Either over Terms (checked under SpecChain).  A   *)
(* chain keeps its parsers in lazies: lazies[i].p is the i-th Term.        *)
(***************************************************************************)

\* C15: Seq(t1).Chain(t2)...Chain(tn) over Terms, started at cursor loc on a
\* stream whose tokens loc..loc+n-1 match t1..tn in order, returns Succeeded
\* with the one location loc + n; if some ti does not match its token the
\* Result is not Succeeded.
C15_SeqOfTerms ==
  [][/\ last'.op = "M.Parse"
     /\ last'.p \in TermChains("Seq", MaxChain)
     /\ 0 <= loc /\ loc <= Len(tokens)
     => LET ts == last'.p.lazies
            n == Len(ts)
            Matches(i) ==
              /\ loc + i <= Len(input)
              /\ input[loc + i].category = ts[i].p.category
              /\ ts[i].p.exactMatch \in { "", input[loc + i].match }
              /\ ~converter(ts[i].p.converter, input[loc + i].match).failed
        IN /\ (\A i \in 1..n : Matches(i))
              => /\ err' = "none"
                 /\ result'.tag = "Succeeded"
                 /\ LocSet(heap', result') = {loc + n}
           /\ (\E i \in 1..n : ~Matches(i))
              => result'.tag # "Succeeded"]_vars

\* Seq(Id("a")).Chain(Id("b")) has parsed the tokens a, b from the start
C15_Witness ==
  /\ last.op = "M.Parse"
  /\ last.p = M_Chain(Seq_("s", Id("a")), Id("b"))
  /\ Len(input) >= 2
  /\ input[1] = NewToken(scanner_Ident, "a")
  /\ input[2] = NewToken(scanner_Ident, "b")
  /\ loc = 2
  /\ result.tag = "Succeeded"
  /\ LocSet(heap, result) = {2}

\* C16: for Either(t1).Chain(t2) over Terms where t1 does not match the token
\* at the cursor and t2 does, Parse returns Succeeded with t2's location and
\* value, and with none of the parse errors of the failed t1.
C16_EitherSecondMatches ==
  [][/\ last'.op = "M.Parse"
     /\ last'.p \in TermChains("Either", MaxChain)
     /\ Len(last'.p.lazies) = 2
     /\ 0 <= loc /\ loc <= Len(tokens) /\ loc < Len(input)
     => LET t1 == last'.p.lazies[1].p
            t2 == last'.p.lazies[2].p
            tok == input[loc + 1]
        IN /\ \/ tok.category # t1.category
              \/ t1.exactMatch \notin { "", tok.match }
           /\ tok.category = t2.category
           /\ t2.exactMatch \in { "", tok.match }
           /\ ~converter(t2.converter, tok.match).failed
           => /\ err' = "none"
              /\ result'.tag = "Succeeded"
              /\ LocSet(heap', result') = {loc + 1}
              /\ result'.v = converter(t2.converter, tok.match).v
              /\ result'.errs = <<>>]_vars

\* Either(Id("a")).Chain(Id("b")) has parsed the token b
C16_Witness ==
  /\ last.op = "M.Parse"
  /\ last.p = M_Chain(Either("e", Id("a")), Id("b"))
  /\ Len(input) >= 1
  /\ input[1] = NewToken(scanner_Ident, "b")
  /\ loc = 1
  /\ result.tag = "Succeeded"
  /\ result.v = StrValue("b")
  /\ LocSet(heap, result) = {1}

\* C17: Either(t1).Chain(t2)...Chain(tn) started at cursor loc returns
\* Succeeded whenever at least one ti, parsed on its own from loc on the same
\* input, returns Succeeded (ti matches the token at loc).
C17_EitherSucceedsIfAny ==
  [][/\ last'.op = "M.Parse"
     /\ last'.p \in TermChains("Either", MaxChain)
     /\ 0 <= loc /\ loc <= Len(tokens) /\ loc < Len(input)
     /\ \E i \in 1..Len(last'.p.lazies) :
          LET t == last'.p.lazies[i].p
              tok == input[loc + 1]
          IN /\ tok.category = t.category
             /\ t.exactMatch \in { "", tok.match }
             /\ ~converter(t.converter, tok.match).failed
     => result'.tag = "Succeeded"]_vars

\* C18: when the first parser of a Seq chain yields Succeeded with the
\* locations L and the next one, a Term, returns Succeeded or Failed from
\* each of them, the Result is Succeeded with the locations l + 1 of the l in
\* L whose token matches the Term, or Failed when none does.
C18_FanOut ==
  [][/\ last'.op = "M.Parse"
     /\ last'.p \in FanOuts
     /\ 0 <= loc /\ loc <= Len(tokens)
     => \A o \in Parse(Ambiguous, Cur, MaxDepth) :
          LET L == LocSet(o.s.heap, o.r)
              t == last'.p.lazies[2].p
              Fits(l) == /\ input[l + 1].category = t.category
                         /\ t.exactMatch \in { "", input[l + 1].match }
              Stops(l) == \/ l >= Len(input)
                          \/ /\ Fits(l)
                             /\ converter(t.converter, input[l + 1].match).failed
              S == { l + 1 : l \in { x \in L : Fits(x) } }
          IN /\ o.r.tag = "Succeeded"
             /\ \A l \in L : ~Stops(l)
             => /\ err' = "none"
                /\ IF S # {}
                   THEN /\ result'.tag = "Succeeded"
                        /\ LocSet(heap', result') = S
                   ELSE result'.tag = "Failed"]_vars

\* Seq(Either(Empty).Chain(Id("a"))).Chain(Id("a")) has parsed the tokens
\* a, a: the first parser ends at 0 and at 1, and Id("a") matches from both
C18_Witness ==
  /\ last.op = "M.Parse"
  /\ last.p = M_Chain(Seq_("s", Ambiguous), Id("a"))
  /\ Len(input) >= 2
  /\ input[1] = NewToken(scanner_Ident, "a")
  /\ input[2] = NewToken(scanner_Ident, "a")
  /\ result.tag = "Succeeded"
  /\ LocSet(heap, result) = {1, 2}

(***************************************************************************)
(* Properties of the arithmetic grammar (checked under SpecArith).         *)
(***************************************************************************)

\* the sum of the integer literals of a token sequence
RECURSIVE SumInts(_)
SumInts(q) ==
  IF q = <<>> THEN 0
  ELSE (IF q[1].category = scanner_Int THEN DecimalValue[q[1].match] ELSE 0)
         + SumInts(Tail(q))

\* C19: parsing expr = Int | '(' expr '+' expr ')' from the start of a
\* complete sentence of the grammar, a bare integer included, returns
\* Succeeded whose value is the sum of the integers of the input and whose one
\* location is the number of tokens.
C19_ArithmeticSum ==
  [][/\ last'.op = "M.Parse"
     /\ last'.p = expr
     /\ loc = 0
     /\ input \in ArithSentences
     => /\ err' = "none"
        /\ result'.tag = "Succeeded"
        /\ result'.v = IntValue(SumInts(input))
        /\ LocSet(heap', result') = {Len(input)}]_vars

\* C20: parsing expr from the start of a sentence of the grammar that is cut
\* short before its end returns Halt, not Failed and not Succeeded.
C20_ArithmeticTruncated ==
  [][/\ last'.op = "M.Parse"
     /\ last'.p = expr
     /\ loc = 0
     /\ input \in Truncated
     => /\ err' = "none"
        /\ result'.tag = "Halt"]_vars

\* expr has parsed ( ( 1 + 2 ) and met the end of the input
C20_Witness ==
  /\ last.op = "M.Parse"
  /\ last.p = expr
  /\ input = << NewToken(LParen, "("), NewToken(LParen, "("),
                NewToken(scanner_Int, "1"), NewToken(Plus, "+"),
                NewToken(scanner_Int, "2"), NewToken(RParen, ")") >>
  /\ result.tag = "Halt"
  /\ result.component = "scanner"
  /\ loc = 6

(***************************************************************************)
(* Properties of the chain builders (checked under SpecBuild).             *)
(***************************************************************************)

\* what a holder of the node m sees of it: its folder, its accumulated
\* result and its queue
NodeView(mm, m) ==
  [folder |-> mm.nodes[m].folder, result |-> mm.nodes[m].result,
   lazies |-> Elems(mm, mm.nodes[m].lazies)]

\* C21: every builder (Chain, Lazy, Return, Passthrough) returns a new node
\* and leaves every node built before, the receiver included, with the queue
\* (length and entries), the accumulated result and the folder it had.
C21_BuildersKeepNodes ==
  [][\A m \in 1..Len(mem.nodes) :
       /\ m <= Len(mem'.nodes)
       /\ NodeView(mem', m) = NodeView(mem, m)]_vars

\* two chains that were extended from the same node of two continuations,
\* each by a continuation of its own
C21_Witness ==
  \E m, a, b \in 1..Len(mem.nodes) :
    /\ Len(NodeView(mem, m).lazies) = 2
    /\ Len(NodeView(mem, a).lazies) = 3
    /\ Len(NodeView(mem, b).lazies) = 3
    /\ SubSeq(NodeView(mem, a).lazies, 1, 2) = NodeView(mem, m).lazies
    /\ SubSeq(NodeView(mem, b).lazies, 1, 2) = NodeView(mem, m).lazies
    /\ NodeView(mem, a).lazies[3] # NodeView(mem, b).lazies[3]

(***************************************************************************)
(* Operands of the Result algebra (checked under SpecAlg).                 *)
(***************************************************************************)

\* C29: merge and Join never modify their operands: after rr = ra.Join(rb) or
\* rr = ra.merge(rb), a later one included, the location set, the value and
\* the parse errors of ra and of rb are what they were before the call.
C29_OperandsUnchanged ==
  [][alg'.op \in { "Join", "merge" } /\ err' = "none"
     => /\ LocSet(heap', ra') = LocSet(heap, ra)
        /\ ra'.v = ra.v
        /\ ra'.errs = ra.errs
        /\ LocSet(heap', rb') = LocSet(heap, rb)
        /\ rb'.v = rb.v
        /\ rb'.errs = rb.errs]_vars

(***************************************************************************)
(* Properties of the folders (checked under SpecFold).                     *)
(***************************************************************************)

\* what a caller sees of the variant and the locations of an outcome
Shape(o) == [tag |-> o.r.tag, locs |-> LocSet(o.s.heap, o.r), err |-> o.s.err]

\* C23: for every chain node m built by Seq or by Either and every parser p,
\* m.Passthrough(p).Parse returns a Result of the same variant and with the
\* same locations as m.Chain(p).Parse, and on Succeeded its value is the value
\* the chain produced before p (the value of m's own Result).
C23_PassthroughAsChain ==
  err = "none" =>
    \A m \in PassHeads, p \in Terms :
      /\ { Shape(o) : o \in Parse(M_Passthrough(m, p), Cur, MaxDepth) }
           = { Shape(o) : o \in Parse(M_Chain(m, p), Cur, MaxDepth) }
      /\ \A o \in Parse(M_Passthrough(m, p), Cur, MaxDepth) :
           o.r.tag = "Succeeded"
           => \E b \in Parse(m, Cur, MaxDepth) : o.r.v = b.r.v

\* C24: every Result that Parse of a parser built with Empty, Term, Seq,
\* Either and the chain builders returns is Succeeded with a non-empty set of
\* locations and no parse errors, or Failed with at least one parse error and
\* no locations, or Halt; it is never the nil Result.
C24_ResultShape ==
  [][last'.op = "M.Parse" /\ err' = "none"
     => LET e == Errors(Cur', result')
            l == Locs(Cur', result')
        IN \/ /\ result'.tag = "Succeeded"
              /\ l.s.err = "none" /\ l.locs # {}
              /\ e.s.err = "none" /\ e.errs = <<>>
           \/ /\ result'.tag = "Failed"
              /\ e.s.err = "none" /\ e.errs # <<>>
              /\ l.s.err = "none" /\ l.locs = {}
           \/ result'.tag = "Halt"]_vars

\* a Seq chain extended with Passthrough has returned Failed: it carries the
\* parse error of the Term and the one the Seq folder starts from
C24_Witness ==
  /\ last.op = "M.Parse"
  /\ last.p \in Passthroughs
  /\ last.p.folder = "Seq"
  /\ err = "none"
  /\ result.tag = "Failed"
  /\ Len(result.errs) >= 2
  /\ LocSet(heap, result) = {}

\* C25: for a fixed grammar and fixed tokens Parse is deterministic: the
\* Result it returns (variant, locations, value, parse errors in their order)
\* and the cursor on return do not depend on the order in which the Seq
\* folder visits the locations of an ambiguous set.
C25_Deterministic ==
  err = "none" =>
    \A g \in FoldGrammars :
      \A o1, o2 \in Parse(g, Cur, MaxDepth) :
        o1.s.err = "none" /\ o2.s.err = "none"
        => View(o1) = View(o2) /\ o1.s.loc = o2.s.loc

\* what a caller sees of an outcome apart from the lines and columns of the
\* parse errors, which follow the scanner and not the cursor
Unplaced(o) ==
  [View(o) EXCEPT !.errs = [k \in 1..Len(o.r.errs) |->
                              [Expected |-> o.r.errs[k].Expected,
                               Found |-> o.r.errs[k].Found]]]

\* C22: Parse changes neither the node it is called on nor a node reachable
\* from it, so a grammar can be run any number of times: a second execution
\* from the same cursor on the same tokens returns the same Result as the
\* first.
C22_ParseAgain ==
  err = "none" =>
    \A g \in FoldGrammars :
      \A o1 \in Parse(g, Cur, MaxDepth) :
        o1.s.err = "none"
        => LET back == Seek(o1.s, loc)
           IN back.err = "none"
              => \A o2 \in Parse(g, back, MaxDepth) :
                   o2.s.err = "none" => Unplaced(o2) = Unplaced(o1)

\* C27: when the parser of the first continuation of a chain returns Halt,
\* M.Parse returns that Halt at once: the folder is not called and no later
\* continuation runs, so the cursor and the scanned tokens are as the first
\* parser left them.
C27_FirstHalt ==
  [][/\ last'.op = "M.Parse"
     /\ last'.p \in FoldGrammars
     /\ Len(last'.p.lazies) >= 2
     => \A o \in Parse(last'.p.lazies[1].p, Cur, MaxDepth) :
          o.s.err = "none" /\ o.r.tag = "Halt"
          => /\ err' = "none"
             /\ result' = o.r
             /\ loc' = o.s.loc
             /\ tokens' = o.s.tokens
             /\ scanPos' = o.s.scanPos]_vars

\* Seq(Int()).Chain(...) was run on the literal 0x1 with a token after it:
\* Int halted on the conversion and the chain returned the Halt
C27_Witness ==
  /\ last.op = "M.Parse"
  /\ last.p.folder = "Seq"
  /\ Len(last.p.lazies) >= 2
  /\ last.p.lazies[1].p = Int_
  /\ loc + 2 <= Len(input)
  /\ input[loc + 1] = NewToken(scanner_Int, "0x1")
  /\ err = "none"
  /\ result.tag = "Halt"
  /\ result.component = "conversion"

\* C26: in the Seq folder, when the attempt at one location of the
\* accumulated set returns Halt the fold stops: no fatal error occurs and the
\* folder returns that Halt.
C26_HaltStopsFold ==
  [][/\ last'.op = "M.Parse"
     /\ last'.p \in FanOuts
     /\ 0 <= loc /\ loc <= Len(tokens)
     => \A o \in Parse(Ambiguous, Cur, MaxDepth) :
          LET L == LocSet(o.s.heap, o.r)
              t == last'.p.lazies[2].p
          IN /\ o.r.tag = "Succeeded"
             /\ \E l \in L : Term_Parse(t, Seek(o.s, l)).r.tag = "Halt"
             => /\ err' = "none"
                /\ result'.tag = "Halt"]_vars

\* C28: a parse that fails consumes nothing: whenever Parse of a parser built
\* from Term, Seq and Either returns Failed, the cursor on return is the
\* cursor at the time of the call.
C28_FailedKeepsCursor ==
  [][/\ last'.op = "M.Parse"
     /\ last'.p \in TermChains("Seq", MaxChain) \cup TermChains("Either", MaxChain)
                      \cup { Alternatives }
     /\ err' = "none"
     /\ result'.tag = "Failed"
     => loc' = loc]_vars

\* the token tok matches the Term t and converts
Fits(t, tok) ==
  /\ tok.category = t.category
  /\ t.exactMatch \in { "", tok.match }
  /\ ~converter(t.converter, tok.match).failed

\* the token tok does not match the Term t
Misfits(t, tok) ==
  \/ tok.category # t.category
  \/ t.exactMatch # "" /\ tok.match # t.exactMatch

\* the parse errors of r other than the one the Seq folder starts from
Diagnosed(r) == SelectSeq(r.errs, LAMBDA e : e # newParseError("", ""))

\* C30: in a Seq chain, once a step returns Failed the folder returns that
\* Failed: no later continuation runs and no Seek is made, so the chain
\* returns Failed with the parse error of that step alone and the cursor
\* stays where the failing step found it.
C30_SeqStopsAtFailure ==
  [][/\ last'.op = "M.Parse"
     /\ last'.p \in TermChains("Seq", MaxChain)
     /\ 0 <= loc /\ loc <= Len(tokens)
     => \A i \in 1..Len(last'.p.lazies) :
          /\ loc + i <= Len(input)
          /\ \A j \in 1..(i - 1) : Fits(last'.p.lazies[j].p, input[loc + j])
          /\ Misfits(last'.p.lazies[i].p, input[loc + i])
          => /\ err' = "none"
             /\ result'.tag = "Failed"
             /\ Len(Diagnosed(result')) = 1
             /\ Diagnosed(result')[1].Expected = last'.p.lazies[i].p.name
             /\ Diagnosed(result')[1].Found = input[loc + i].match
             /\ loc' = loc + i - 1
             /\ Len(tokens') <= IF Len(tokens) > loc + i THEN Len(tokens)
                                ELSE loc + i]_vars

\* a Seq chain of two Terms was run where the first token is not the one the
\* first Term wants and the second Term would have matched it
C30_Witness ==
  /\ last.op = "M.Parse"
  /\ last.p = M_Chain(Seq_("s", Id("a")), Int_)
  /\ Len(input) > loc
  /\ 0 <= loc
  /\ input[loc + 1] = NewToken(scanner_Int, "1")
  /\ err = "none"
  /\ result.tag = "Failed"
  /\ Len(result.errs) = 1

(***************************************************************************)
(* Properties of nodes made with NewM (checked under SpecNode).            *)
(***************************************************************************)

\* C31: Parse on a chain node whose queue of continuations is empty returns
\* the Result the node has accumulated, unchanged, and does not touch the
\* stream.
C31_EmptyQueue ==
  [][/\ last'.op = "M.Parse"
     /\ Len(last'.p.lazies) = 0
     => /\ err' = "none"
        /\ result'.tag = last'.p.result.tag
        /\ result'.v = last'.p.result.v
        /\ result'.errs = last'.p.result.errs
        /\ result'.tag = "Succeeded" => LocSet(heap', result') = { loc }
        /\ loc' = loc
        /\ tokens' = tokens
        /\ scanPos' = scanPos]_vars

(***************************************************************************)
(* The names of the nodes (checked under SpecBuild, where every chain is   *)
(* started with the name "s").                                             *)
(***************************************************************************)

\* C33: a chain node keeps its name: the node that Seq(n, p) or Either(n, p)
\* returns has the name n, and the node that a builder (Chain, Lazy, Return,
\* Passthrough) returns has the name of its receiver.  The node returned is
\* the one allocated last.
C33_KeepsName ==
  [][mem' # mem => mem'.nodes[Len(mem'.nodes)].name = "s"]_vars

(***************************************************************************)
(* Properties of Lazy (checked under SpecLazy).                            *)
(***************************************************************************)

\* what a Seq chain with the continuations ls yields when the step before
\* them succeeded with the value v at the location l of the tokens q: each
\* continuation is called with the value of the step before it, and none is
\* called once a step has not succeeded
RECURSIVE Continue(_, _, _, _)
Continue(ls, v, l, q) ==
  IF ls = <<>> THEN [tag |-> "Succeeded", v |-> v, loc |-> l]
  ELSE IF ls[1].kind = "Wrap"
  THEN Continue(Tail(ls), apply(ls[1].f, v), l, q)
  ELSE IF l >= Len(q) THEN [tag |-> "Halt", v |-> NilValue, loc |-> l]
  ELSE IF Misfits(ls[1].p, q[l + 1])
  THEN [tag |-> "Failed", v |-> NilValue, loc |-> l]
  ELSE IF ~Fits(ls[1].p, q[l + 1])
  THEN [tag |-> "Halt", v |-> NilValue, loc |-> l]
  ELSE Continue(Tail(ls), converter(ls[1].p.converter, q[l + 1].match).v,
                l + 1, q)

\* C32: during Parse of a Seq chain each continuation attached with Lazy is
\* called only after the step before it returned Succeeded, and with the
\* value of that step: the chain yields what calling the continuations in
\* turn, each on the value of the one before, yields, and after a step that
\* failed or halted no continuation adds a value or consumes a token.
C32_LazyAfterSuccess ==
  [][/\ last'.op = "M.Parse"
     /\ last'.p \in LazyChains(MaxLazies)
     /\ 0 <= loc /\ loc <= Len(tokens)
     => LET x == Continue(last'.p.lazies, NilValue, loc, input)
        IN /\ err' = "none"
           /\ result'.tag = x.tag
           /\ loc' = x.loc
           /\ x.tag = "Succeeded"
              => /\ result'.v = x.v
                 /\ LocSet(heap', result') = { x.loc }]_vars

\* Seq(Int()).Lazy(AddOne).Lazy(AddTwo) has parsed the literal 1: the first
\* continuation was given 1 and the second 2, and the chain yields 4
C32_Witness ==
  /\ last.op = "M.Parse"
  /\ last.p = M_Lazy(M_Lazy(Seq_("s", Int_), << AddOne >>), << AddTwo >>)
  /\ err = "none"
  /\ result.tag = "Succeeded"
  /\ result.v = IntValue(4)
  /\ loc >= 1
  /\ input[loc] = NewToken(scanner_Int, "1")

(***************************************************************************)
(* Termination of the arithmetic grammar (checked under SpecStreams).      *)
(***************************************************************************)

\* the nesting of calls that the tokens left from the cursor allow: MaxNest
\* for each of them, and two for the call that finds the end of the input
Fuel == MaxNest * (IF Len(input) > loc THEN Len(input) - loc ELSE 0) + 2

\* C35: Parse of a recursive grammar whose every recursive reference is
\* reached only after a token has been consumed, such as expr, which recurs
\* only after ( or +, terminates on every finite token stream: from any
\* cursor the nesting of calls is bounded by the number of tokens left, so
\* the stack does not overflow.
C35_Terminates ==
  err = "none" /\ loc >= 0
  => \A o \in Parse(expr, Cur, Fuel) : o.s.err # "stack overflow"

\* expr has been run on tokens that open two brackets: the reference to expr
\* after the first ( was followed, and again after the second
C35_Witness ==
  /\ last.op = "M.Parse"
  /\ last.p = expr
  /\ Len(tokens) >= 3
  /\ tokens[1] = NewToken(LParen, "(")
  /\ tokens[2] = NewToken(LParen, "(")
  /\ err # "stack overflow"

(***************************************************************************)
(* The parse errors of a Failed (checked under SpecFold).                  *)
(***************************************************************************)

\* C36: every parse error of a Failed that a Seq or Either chain of Terms
\* returns records the mismatch of one Term: what it expected is the name of a
\* Term of the chain and what it found is the text of a token of the input
\* that this Term does not match; and when Seq(t1).Chain(t2) fails at t2 the
\* Failed holds the parse error of t2 and no other.
C36_TermMismatchesOnly ==
  [][/\ last'.op = "M.Parse"
     /\ last'.p \in TermChains("Seq", MaxChain) \cup TermChains("Either", MaxChain)
     /\ 0 <= loc /\ loc <= Len(tokens)
     /\ err' = "none"
     /\ result'.tag = "Failed"
     => /\ \A k \in 1..Len(result'.errs) :
             \E i \in 1..Len(last'.p.lazies), l \in 1..Len(input) :
               /\ result'.errs[k].Expected = last'.p.lazies[i].p.name
               /\ result'.errs[k].Found = input[l].match
               /\ Misfits(last'.p.lazies[i].p, input[l])
        /\ (/\ last'.p.folder = "Seq"
            /\ Len(last'.p.lazies) = 2
            /\ loc' = loc + 1)
           => Len(result'.errs) = 1]_vars

(***************************************************************************)
(* The locations of a Succeeded (checked under SpecFold).                  *)
(***************************************************************************)

\* C34: during a parse started with the cursor within the tokens scanned so
\* far, as it is on a fresh stream, every location of a Succeeded lies between
\* 0 and the number of tokens scanned: no Seek of the Seq folder panics with
\* ErrBadLoc, no Peek reads outside the tokens, and the locations of the
\* Result returned are in that range.
C34_LocationsInRange ==
  [][/\ last'.op = "M.Parse"
     /\ 0 <= loc /\ loc <= Len(tokens)
     => /\ err' \notin { "ErrBadLoc", "index out of range" }
        /\ result'.tag = "Succeeded"
           => LocSet(heap', result') \subseteq 0..Len(tokens')]_vars

\* Seq(Id("a")).Chain(Int()) has parsed a, 1 from a fresh stream: the folder
\* sought to location 1 when one token was scanned, and the parse ended at 2
C34_Witness ==
  /\ last.op = "M.Parse"
  /\ last.p = M_Chain(Seq_("s", Id("a")), Int_)
  /\ tokens = << NewToken(scanner_Ident, "a"), NewToken(scanner_Int, "1") >>
  /\ scanPos = 2
  /\ loc = 2
  /\ err = "none"
  /\ result.tag = "Succeeded"
  /\ LocSet(heap, result) = { 2 }

====
